---------------------------- MODULE Spec2Model ----------------------------
(***************************************************************************)
(* Model of Historical_Market_Returns.ipynb: the batch pipeline that       *)
(* fetches CRSP monthly stock data, delisting data and the Fama-French     *)
(* factors, builds the stock-year-month panel with lagged market equity,   *)
(* aggregates it to monthly market excess returns and aligns the result    *)
(* with the Fama-French series.                                            *)
(*                                                                         *)
(* Numeric columns are exact rationals <<n, d>> in lowest terms with d > 0 *)
(* (binary64 rounding is not modelled); d = 0 encodes the non-finite       *)
(* values: <<0,0>> is NaN, <<1,0>> and <<-1,0>> are +inf and -inf.         *)
(* Columns the notebook fetches but never reads (permco, retx, cfacshr,    *)
(* cfacpr, dlstcd, smb, hml) are left out of the rows.                     *)
(***************************************************************************)
EXTENDS Integers, Sequences, FiniteSets

VARIABLES pc, conn, a, b, c, crsp_raw, dlret_raw, french, stocks,
          date, monthly_returns, both

vars == <<pc, conn, a, b, c, crsp_raw, dlret_raw, french, stocks,
          date, monthly_returns, both>>

(***************************************************************************)
(* Bounds of the model.                                                    *)
(***************************************************************************)
MaxCrspRows == 3
MaxDelistRows == 1

(***************************************************************************)
(* float arithmetic, as exact rationals with IEEE non-finite values        *)
(***************************************************************************)
AbsInt(n) == IF n < 0 THEN -n ELSE n
Sgn(n) == IF n < 0 THEN -1 ELSE IF n > 0 THEN 1 ELSE 0

RECURSIVE GCD(_, _)
GCD(m, n) == IF n = 0 THEN m ELSE GCD(n, m % n)

Norm(n, d) ==
    IF d = 0 THEN <<Sgn(n), 0>>
    ELSE LET g == GCD(AbsInt(n), AbsInt(d))
         IN  <<(Sgn(d) * n) \div g, AbsInt(d) \div g>>

R(n) == <<n, 1>>
NaN == <<0, 0>>
IsNaN(x) == x = NaN
IsFinite(x) == x[2] # 0

Neg(x) == <<-x[1], x[2]>>

Add(x, y) ==
    IF ~IsFinite(x) /\ ~IsFinite(y) THEN (IF x = y THEN x ELSE NaN)
    ELSE IF ~IsFinite(x) THEN x
    ELSE IF ~IsFinite(y) THEN y
    ELSE Norm(x[1] * y[2] + y[1] * x[2], x[2] * y[2])

Sub(x, y) == Add(x, Neg(y))

Mul(x, y) ==
    IF IsFinite(x) /\ IsFinite(y) THEN Norm(x[1] * y[1], x[2] * y[2])
    ELSE <<Sgn(x[1]) * Sgn(y[1]), 0>>

Div(x, y) ==
    IF IsFinite(y) /\ y[1] # 0
      THEN Mul(x, Norm(y[2], y[1]))
    ELSE IF IsFinite(y) THEN <<Sgn(x[1]), 0>>
    ELSE IF IsFinite(x) THEN R(0) ELSE NaN

\* elementwise == of two float columns: NaN equals nothing
EqNum(x, y) == ~IsNaN(x) /\ ~IsNaN(y) /\ x = y

AbsNum(x) == <<AbsInt(x[1]), x[2]>>

\* Series.fillna(v)
FillNa(x, v) == IF IsNaN(x) THEN v ELSE x

\* Series.sum(): NaN entries are skipped, the empty sum is 0
RECURSIVE SumSeq(_)
SumSeq(s) ==
    IF s = <<>> THEN R(0)
    ELSE IF IsNaN(s[1]) THEN SumSeq(Tail(s))
    ELSE Add(s[1], SumSeq(Tail(s)))

NotNaN(s) == SelectSeq(s, LAMBDA x : ~IsNaN(x))

\* Series.mean(): NaN entries are skipped, the mean of nothing is NaN
MeanSeq(s) == Div(SumSeq(s), R(Len(NotNaN(s))))

(***************************************************************************)
(* dates                                                                   *)
(***************************************************************************)
IsLeap(y) == (y % 4 = 0 /\ y % 100 # 0) \/ y % 400 = 0

DaysInMonth(y, m) ==
    IF m = 2 THEN (IF IsLeap(y) THEN 29 ELSE 28)
    ELSE IF m \in {4, 6, 9, 11} THEN 30 ELSE 31

\* date + MonthEnd(0): roll forward to the end of the date's own month
MonthEnd0(d) == [year |-> d.year, month |-> d.month,
                 day |-> DaysInMonth(d.year, d.month)]


(***************************************************************************)
(* generic table helpers                                                   *)
(***************************************************************************)
Range(s) == {s[i] : i \in 1..Len(s)}

\* lexicographic order of two tuples of integers of one length
LexLess(x, y) ==
    \E k \in 1..Len(x) : x[k] < y[k] /\ \A l \in 1..(k - 1) : x[l] = y[l]

\* DataFrame.sort_values: the rows of s in ascending order of their keys
\* (key[i] is the tuple of row i's sort columns); ties keep their order
SortSeq(s, key) ==
    LET n == Len(s)
        Before(j, i) == LexLess(key[j], key[i]) \/ (key[j] = key[i] /\ j < i)
        Rank(i) == Cardinality({j \in 1..n : Before(j, i)})
    IN  [k \in 1..n |-> s[CHOOSE i \in 1..n : Rank(i) = k - 1]]

DateKey(d) == <<d.year, d.month, d.day>>
\* the ['permno', 'date'] sort key of each row of t
PermnoDateKeys(t) == [i \in 1..Len(t) |-> <<t[i].permno>> \o DateKey(t[i].date)]
SortByPermnoDate(t) == SortSeq(t, PermnoDateKeys(t))

RECURSIVE SetToSeq(_)
SetToSeq(S) ==
    IF S = {} THEN <<>>
    ELSE LET x == CHOOSE y \in S : TRUE IN <<x>> \o SetToSeq(S \ {x})

\* DataFrame.drop_duplicates: the first occurrence of each row is kept
DropDuplicates(s) ==
    LET keep == {i \in 1..Len(s) : \A j \in 1..(i - 1) : s[j] # s[i]}
        u == SetToSeq(keep)
        idx == SortSeq(u, [k \in 1..Len(u) |-> <<u[k]>>])
    IN  [k \in 1..Len(idx) |-> s[idx[k]]]

(***************************************************************************)
(* what the data source can return (cell 3)                                *)
(***************************************************************************)
Permnos == {10001, 10002}

DateOf(y, m, d) == [year |-> y, month |-> m, day |-> d]

\* msf.date is the last trading day of the month, msedelist.dlstdt any day
\* of it, factors_monthly.date its first day
TradeDates == {DateOf(2000, 11, 30), DateOf(2000, 12, 29), DateOf(2001, 1, 31)}
DelistDates == {DateOf(2000, 11, 15), DateOf(2000, 12, 15), DateOf(2001, 1, 15)}
FactorDates == {DateOf(2000, 11, 1), DateOf(2000, 12, 1), DateOf(2001, 1, 1)}

\* A month of the security p is one of three: a month as common stock on a
\* major exchange (a negative prc is a bid/ask average), a month under a
\* share code the notebook filters out, or a month that no msenames record
\* covers (the left join leaves shrcd and exchcd missing) and that has no
\* return and no price either.
CommonMonth(p) ==
    IF p = 10001
      THEN [shrcd |-> R(10), exchcd |-> R(1), ret |-> Norm(1, 10),
            prc |-> R(-20), shrout |-> R(3)]
      ELSE [shrcd |-> R(11), exchcd |-> R(3), ret |-> Norm(-1, 5),
            prc |-> R(10), shrout |-> R(5)]

OtherClassMonth ==
    [shrcd |-> R(12), exchcd |-> R(2), ret |-> Norm(1, 20),
     prc |-> R(8), shrout |-> R(2)]

UncoveredMonth ==
    [shrcd |-> NaN, exchcd |-> NaN, ret |-> NaN, prc |-> NaN, shrout |-> R(4)]

CrspValues(p) == {CommonMonth(p), OtherClassMonth, UncoveredMonth}

DlretValues == {NaN, Norm(-1, 2)}

\* the monthly risk-free rate and market factor of each month
RfOf(d) == Norm(d.month, 1000)
MktrfOf(d) == Norm(d.month - 6, 100)

BoundedSubsets(S, n) == {K \in SUBSET S : Cardinality(K) <= n}

\* the rows of the set S as a table, by descending key (a query result has
\* no guaranteed order)
Descending(S, key) ==
    LET u == SetToSeq(S)
    IN  SortSeq(u, [i \in 1..Len(u) |->
                      [k \in 1..Len(key[u[i]]) |-> -key[u[i]][k]]])

CrspResults ==
    { LET rows == { [permno |-> k[1], date |-> k[2],
                     shrcd |-> f[k].shrcd, exchcd |-> f[k].exchcd,
                     ret |-> f[k].ret, shrout |-> f[k].shrout,
                     prc |-> f[k].prc] : k \in DOMAIN f }
      IN  Descending(rows, [r \in rows |-> <<r.permno>> \o DateKey(r.date)]) :
      f \in UNION { {g \in [K -> UNION {CrspValues(p) : p \in Permnos}] :
                       \A k \in K : g[k] \in CrspValues(k[1])} :
                    K \in BoundedSubsets(Permnos \X TradeDates, MaxCrspRows) } }

DelistResults ==
    { LET rows == { [permno |-> k[1], dlret |-> f[k], dlstdt |-> k[2]] :
                     k \in DOMAIN f }
      IN  Descending(rows, [r \in rows |-> <<r.permno>> \o DateKey(r.dlstdt)]) :
      f \in UNION { [K -> DlretValues] :
                    K \in BoundedSubsets(Permnos \X DelistDates, MaxDelistRows) } }

\* the factor table, whole or without December 2000
FactorResults ==
    { LET rows == { [date |-> d, mktrf |-> MktrfOf(d), rf |-> RfOf(d)] : d \in K }
      IN  Descending(rows, [r \in rows |-> DateKey(r.date)]) :
      K \in {FactorDates, FactorDates \ {DateOf(2000, 12, 1)}} }

(***************************************************************************)
(* cell 5: the Fama-French frame                                           *)
(***************************************************************************)
FrenchRow(r) ==
    LET d == MonthEnd0(r.date)
    IN  [date |-> d, mktrf |-> r.mktrf, rf |-> r.rf,
         mkt |-> Add(r.mktrf, r.rf), year |-> d.year, month |-> d.month]

(***************************************************************************)
(* cell 6: cleaning, merge, lagged market equity, filter                   *)
(***************************************************************************)
CleanCrsp(t) ==
    LET s == SortByPermnoDate(t)
    IN  [i \in 1..Len(s) |->
           [s[i] EXCEPT !.date = MonthEnd0(s[i].date), !.prc = AbsNum(s[i].prc)]]

CleanDlret(t) ==
    LET s == SortSeq(t, [i \in 1..Len(t) |->
                           <<t[i].permno>> \o DateKey(t[i].dlstdt)])
    IN  [i \in 1..Len(s) |->
           [permno |-> s[i].permno, dlret |-> s[i].dlret,
            dlstdt |-> s[i].dlstdt, date |-> MonthEnd0(s[i].dlstdt)]]

KeysOf(t) == {<<t[i].permno, t[i].date>> : i \in 1..Len(t)}

WithKey(t, k) == SelectSeq(t, LAMBDA r : r.permno = k[1] /\ r.date = k[2])

JoinRow(k, l, dl) ==
    [permno |-> k[1], date |-> k[2], shrcd |-> l.shrcd, exchcd |-> l.exchcd,
     ret |-> l.ret, shrout |-> l.shrout, prc |-> l.prc, dlret |-> dl]

NoCrsp == [shrcd |-> NaN, exchcd |-> NaN, ret |-> NaN, shrout |-> NaN, prc |-> NaN]

\* the rows an outer merge makes of one key
MergeBlock(left, right, k) ==
    LET L == WithKey(left, k)
        Rt == WithKey(right, k)
    IN  IF Rt = <<>> THEN [i \in 1..Len(L) |-> JoinRow(k, L[i], NaN)]
        ELSE IF L = <<>> THEN [j \in 1..Len(Rt) |-> JoinRow(k, NoCrsp, Rt[j].dlret)]
        ELSE [n \in 1..(Len(L) * Len(Rt)) |->
                JoinRow(k, L[((n - 1) \div Len(Rt)) + 1],
                        Rt[((n - 1) % Len(Rt)) + 1].dlret)]

RECURSIVE MergeBlocks(_, _, _)
MergeBlocks(left, right, ks) ==
    IF ks = <<>> THEN <<>>
    ELSE MergeBlock(left, right, ks[1]) \o MergeBlocks(left, right, Tail(ks))

\* the keys of the set K in lexicographic order
SortedKeys(K) ==
    LET u == SetToSeq(K)
    IN  SortSeq(u, [i \in 1..Len(u) |-> <<u[i][1]>> \o DateKey(u[i][2])])

\* mutant of MergeOuter: the merge made a left merge
MergeLeft(left, right) == MergeBlocks(left, right, SortedKeys(KeysOf(left)))

\* crsp_raw.merge(dlret_raw[['permno','date','dlret']], how='outer',
\* on=['permno','date']): the union of the keys, in lexicographic key order
MergeOuter(left, right) ==
    MergeBlocks(left, right, SortedKeys(KeysOf(left) \cup KeysOf(right)))

\* Series.ffill() at row i of the column s: the last value at or before
\* row i that is not NaN, whatever row it stands in
Ffill(s, i) ==
    LET seen == {j \in 1..i : ~IsNaN(s[j])}
    IN  IF seen = {} THEN NaN
        ELSE s[CHOOSE j \in seen : \A l \in seen : l <= j]

\* mutant of TotalRet: the closing - 1 is left out
TotalRetGross(ret, dlret) == Mul(Add(R(1), ret), Add(R(1), dlret))

\* (1 + ret) * (1 + dlret) - 1
TotalRet(ret, dlret) == Sub(Mul(Add(R(1), ret), Add(R(1), dlret)), R(1))

MarketEquity(prc, shrout) == Mul(prc, shrout)

MergeFill(left, right) ==
    LET m == MergeOuter(left, right)
    IN  [i \in 1..Len(m) |->
           LET dlret == FillNa(m[i].dlret, R(0))
               ret == FillNa(m[i].ret, R(0))
               prc == FillNa(m[i].prc, R(0))
               shrout == FillNa(m[i].shrout, R(0))
           IN  [permno |-> m[i].permno, date |-> m[i].date,
                shrcd |-> Ffill([j \in 1..Len(m) |-> m[j].shrcd], i),
                exchcd |-> Ffill([j \in 1..Len(m) |-> m[j].exchcd], i),
                ret |-> TotalRet(ret, dlret), shrout |-> shrout, prc |-> prc,
                dlret |-> dlret, me |-> MarketEquity(prc, shrout)]]

\* mutant of Daten: the month number without the year
DatenMonthOnly(r) == r.date.month

\* date.dt.year*12 + date.dt.month
Daten(r) == r.date.year * 12 + r.date.month

\* daten.diff(1) == 1, then False wherever permno.diff(1) != 0; the diff of
\* the first row is NaN, which is neither 1 nor 0
IsValidLag(s, i) ==
    /\ i > 1 /\ Daten(s[i]) - Daten(s[i - 1]) = 1
    /\ ~(i = 1 \/ s[i].permno - s[i - 1].permno # 0)

\* stocks[['permno','me']].groupby('permno').shift(1) at row i
GroupShift(s, i) ==
    LET prev == {j \in 1..(i - 1) : s[j].permno = s[i].permno}
    IN  IF prev = {} THEN NaN
        ELSE s[CHOOSE j \in prev : \A l \in prev : l <= j].me

Lme(s, i) == IF IsValidLag(s, i) THEN GroupShift(s, i) ELSE NaN

AttachLag(t) ==
    LET s == SortByPermnoDate(t)
    IN  [i \in 1..Len(s) |->
           [permno |-> s[i].permno, date |-> s[i].date, shrcd |-> s[i].shrcd,
            exchcd |-> s[i].exchcd, ret |-> s[i].ret, shrout |-> s[i].shrout,
            prc |-> s[i].prc, dlret |-> s[i].dlret, me |-> s[i].me,
            lme |-> Lme(s, i)]]

\* shrcd 10 or 11 and exchcd 1, 2 or 3
PassesFilter(r) ==
    /\ EqNum(r.shrcd, R(10)) \/ EqNum(r.shrcd, R(11))
    /\ EqNum(r.exchcd, R(1)) \/ EqNum(r.exchcd, R(2)) \/ EqNum(r.exchcd, R(3))

Reshape(r) ==
    [permno |-> r.permno, year |-> r.date.year, month |-> r.date.month,
     prc |-> r.prc, shrout |-> r.shrout, lme |-> r.lme, ret |-> r.ret]

\* mutant of HasNa: dropna looks at ret alone
HasNaRetOnly(r) == IsNaN(r.ret)

\* DataFrame.dropna(): a row goes when any of its columns is missing
HasNa(r) == IsNaN(r.prc) \/ IsNaN(r.shrout) \/ IsNaN(r.lme) \/ IsNaN(r.ret)

FilterReshape(t) ==
    LET f == SelectSeq(t, PassesFilter)
        g == [i \in 1..Len(f) |-> Reshape(f[i])]
    IN  SelectSeq(g, LAMBDA r : ~HasNa(r))

(***************************************************************************)
(* cell 7: the monthly aggregation                                         *)
(***************************************************************************)
\* t[['year','month']].drop_duplicates().sort_values(by=['year','month'])
YearMonths(t) ==
    LET u == DropDuplicates([i \in 1..Len(t) |->
                               [year |-> t[i].year, month |-> t[i].month]])
    IN  SortSeq(u, [i \in 1..Len(u) |-> <<u[i].year, u[i].month>>])

\* mutant of InnerDates: the merge made a left merge
InnerDatesLeft(french_date, stock_date) == french_date

\* french_date.merge(stock_date, how='inner', on=['year','month'])
InnerDates(french_date, stock_date) ==
    SelectSeq(french_date, LAMBDA d : d \in Range(stock_date))

InMonth(t, d) == SelectSeq(t, LAMBDA r : r.year = d.year /\ r.month = d.month)

\* this_stocks['lme'].sum()
StartValue(ts) == SumSeq([i \in 1..Len(ts) |-> ts[i].lme])

\* mutant of EndValue: every return is weighted by the first row's lme
EndValueFirstWeight(ts) ==
    SumSeq([i \in 1..Len(ts) |-> Mul(ts[1].lme, Add(R(1), ts[i].ret))])

\* (this_stocks['lme']*(1 + this_stocks['ret'])).sum()
EndValue(ts) == SumSeq([i \in 1..Len(ts) |-> Mul(ts[i].lme, Add(R(1), ts[i].ret))])

\* mutant of ValueMonthlyReturn: start_value is not taken off end_value
ValueMonthlyReturnGross(ts, rf) == Sub(Div(EndValue(ts), StartValue(ts)), rf)

\* (end_value - start_value)/start_value - rf
ValueMonthlyReturn(ts, rf) ==
    Sub(Div(Sub(EndValue(ts), StartValue(ts)), StartValue(ts)), rf)

\* this_stocks['ret'].mean() - rf
EqualMonthlyReturn(ts, rf) == Sub(MeanSeq([i \in 1..Len(ts) |-> ts[i].ret]), rf)

\* one pass of the loop body for the year-month d
MonthRow(st, fr, d) ==
    LET this_stocks == InMonth(st, d)
        rf == InMonth(fr, d)[1].rf
    IN  [year |-> d.year, month |-> d.month,
         MktRF_VW |-> ValueMonthlyReturn(this_stocks, rf),
         MktRF_EW |-> EqualMonthlyReturn(this_stocks, rf),
         Lagged_Mkt_Value |-> StartValue(this_stocks)]

(***************************************************************************)
(* cell 8: the aligned frame                                               *)
(***************************************************************************)
AlignRow(m, f) ==
    [year |-> m.year, month |-> m.month, MktRF_VW |-> m.MktRF_VW,
     MktRF_EW |-> m.MktRF_EW, Lagged_Mkt_Value |-> m.Lagged_Mkt_Value,
     date |-> f.date, mktrf |-> f.mktrf, rf |-> f.rf, mkt |-> f.mkt]

\* monthly_returns.merge(french, how='inner', on=['year','month'])
RECURSIVE MergeInner(_, _)
MergeInner(mr, fr) ==
    IF mr = <<>> THEN <<>>
    ELSE LET hit == InMonth(fr, mr[1])
         IN  [j \in 1..Len(hit) |-> AlignRow(mr[1], hit[j])]
             \o MergeInner(Tail(mr), fr)

(***************************************************************************)
(* the notebook as a state machine                                         *)
(***************************************************************************)
Init ==
    /\ pc = "connect"
    /\ conn = "none"
    /\ a = <<>> /\ b = <<>> /\ c = <<>>
    /\ crsp_raw = <<>> /\ dlret_raw = <<>> /\ french = <<>>
    /\ stocks = <<>> /\ date = <<>> /\ monthly_returns = <<>> /\ both = <<>>

\* conn = wrds.Connection(id)
Connect ==
    /\ pc = "connect"
    /\ conn' = "open"
    /\ pc' = "fetch_a"
    /\ UNCHANGED <<a, b, c, crsp_raw, dlret_raw, french, stocks, date,
                   monthly_returns, both>>

\* the connection cannot be made: the cell stops with the exception
ConnectFails ==
    /\ pc = "connect"
    /\ pc' = "aborted"
    /\ UNCHANGED <<conn, a, b, c, crsp_raw, dlret_raw, french, stocks, date,
                   monthly_returns, both>>

FetchA ==
    /\ pc = "fetch_a"
    /\ a' \in CrspResults
    /\ pc' = "fetch_b"
    /\ UNCHANGED <<conn, b, c, crsp_raw, dlret_raw, french, stocks, date,
                   monthly_returns, both>>

FetchB ==
    /\ pc = "fetch_b"
    /\ b' \in DelistResults
    /\ pc' = "fetch_c"
    /\ UNCHANGED <<conn, a, c, crsp_raw, dlret_raw, french, stocks, date,
                   monthly_returns, both>>

FetchC ==
    /\ pc = "fetch_c"
    /\ c' \in FactorResults
    /\ pc' = "close"
    /\ UNCHANGED <<conn, a, b, crsp_raw, dlret_raw, french, stocks, date,
                   monthly_returns, both>>

\* raw_sql or get_table raises: the cell stops there, before conn.close()
FetchFails ==
    /\ pc \in {"fetch_a", "fetch_b", "fetch_c"}
    /\ pc' = "aborted"
    /\ UNCHANGED <<conn, a, b, c, crsp_raw, dlret_raw, french, stocks, date,
                   monthly_returns, both>>

\* conn.close()
Close ==
    /\ pc = "close"
    /\ conn' = "closed"
    /\ pc' = "copy"
    /\ UNCHANGED <<a, b, c, crsp_raw, dlret_raw, french, stocks, date,
                   monthly_returns, both>>

\* cell 4
Copy ==
    /\ pc = "copy"
    /\ crsp_raw' = a
    /\ dlret_raw' = b
    /\ french' = c
    /\ pc' = "french"
    /\ UNCHANGED <<conn, a, b, c, stocks, date, monthly_returns, both>>

\* cell 5
FrenchPrep ==
    /\ pc = "french"
    /\ french' = [i \in 1..Len(french) |-> FrenchRow(french[i])]
    /\ pc' = "clean"
    /\ UNCHANGED <<conn, a, b, c, crsp_raw, dlret_raw, stocks, date,
                   monthly_returns, both>>

\* cell 6, "Clean crsp_raw data" and "Clean dlret_raw data"
Clean ==
    /\ pc = "clean"
    /\ crsp_raw' = CleanCrsp(crsp_raw)
    /\ dlret_raw' = CleanDlret(dlret_raw)
    /\ pc' = "merge"
    /\ UNCHANGED <<conn, a, b, c, french, stocks, date, monthly_returns, both>>

\* cell 6, "Merge crsp_raw with dlret_raw" and the total return
Merge ==
    /\ pc = "merge"
    /\ stocks' = MergeFill(crsp_raw, dlret_raw)
    /\ pc' = "lag"
    /\ UNCHANGED <<conn, a, b, c, crsp_raw, dlret_raw, french, date,
                   monthly_returns, both>>

\* cell 6, "Attach Lagged Market Equity"
Lag ==
    /\ pc = "lag"
    /\ stocks' = AttachLag(stocks)
    /\ pc' = "filter"
    /\ UNCHANGED <<conn, a, b, c, crsp_raw, dlret_raw, french, date,
                   monthly_returns, both>>

\* cell 6, the filter, the year and month columns, the projection, dropna
Filter ==
    /\ pc = "filter"
    /\ stocks' = FilterReshape(stocks)
    /\ pc' = "dates"
    /\ UNCHANGED <<conn, a, b, c, crsp_raw, dlret_raw, french, date,
                   monthly_returns, both>>

\* cell 7 up to the loop: the empty lists and the year-months to visit
Dates ==
    /\ pc = "dates"
    /\ date' = InnerDates(YearMonths(french), YearMonths(stocks))
    /\ monthly_returns' = <<>>
    /\ pc' = "loop"
    /\ UNCHANGED <<conn, a, b, c, crsp_raw, dlret_raw, french, stocks, both>>

\* one pass of "for index, row in date.iterrows()"
LoopStep ==
    /\ pc = "loop"
    /\ Len(monthly_returns) < Len(date)
    /\ monthly_returns' =
          Append(monthly_returns,
                 MonthRow(stocks, french, date[Len(monthly_returns) + 1]))
    /\ UNCHANGED <<pc, conn, a, b, c, crsp_raw, dlret_raw, french, stocks,
                   date, both>>

\* the loop is over: monthly_returns is framed and, in cell 8, aligned
Align ==
    /\ pc = "loop"
    /\ Len(monthly_returns) = Len(date)
    /\ both' = MergeInner(monthly_returns, french)
    /\ pc' = "done"
    /\ UNCHANGED <<conn, a, b, c, crsp_raw, dlret_raw, french, stocks, date,
                   monthly_returns>>

Next ==
    \/ Connect \/ ConnectFails
    \/ FetchA \/ FetchB \/ FetchC \/ FetchFails
    \/ Close \/ Copy \/ FrenchPrep \/ Clean \/ Merge \/ Lag \/ Filter
    \/ Dates \/ LoopStep \/ Align

Spec == Init /\ [][Next]_vars

(***************************************************************************)
(* Properties.  stocks holds the merged table while pc = "lag", the merged *)
(* table with lme while pc = "filter", and the analysis panel afterwards.  *)
(***************************************************************************)
YM(r) == <<r.year, r.month>>
DateYM(d) == <<d.year, d.month>>

\* the calendar month after d
MonthAfter(d) ==
    IF d.month = 12 THEN <<d.year + 1, 1>> ELSE <<d.year, d.month + 1>>

\* row i of t directly follows a row of the same security dated the month before
FollowsAdjacent(t, i) ==
    /\ i > 1
    /\ t[i - 1].permno = t[i].permno
    /\ MonthAfter(t[i - 1].date) = DateYM(t[i].date)

DateLess(d, e) ==
    \/ d.year < e.year
    \/ d.year = e.year /\ d.month < e.month
    \/ d.year = e.year /\ d.month = e.month /\ d.day < e.day

\* (p, d) comes before (q, e) in (permno, date) order
KeyLess(p, d, q, e) == p < q \/ (p = q /\ DateLess(d, e))

Sorted(t) ==
    \A i \in 1..Len(t) : \A j \in (i + 1)..Len(t) :
        ~KeyLess(t[j].permno, t[j].date, t[i].permno, t[i].date)

RECURSIVE SumSet(_, _)
SumSet(S, f) ==
    IF S = {} THEN R(0)
    ELSE LET x == CHOOSE y \in S : TRUE IN Add(f[x], SumSet(S \ {x}, f))

Last(S) == CHOOSE j \in S : \A l \in S : l <= j
First(S) == CHOOSE j \in S : \A l \in S : j <= l

\* C1: in the merged table sorted by (permno, date), a row's lme is defined
\* if and only if the row before it is of the same permno and dated exactly
\* one month earlier, and then it is that row's me; the first row overall
\* and the first row of every permno have no lme.
C1_LagIffAdjacent ==
    pc = "filter" =>
      /\ Sorted(stocks)
      /\ \A i \in 1..Len(stocks) :
           /\ ~IsNaN(stocks[i].lme) <=> FollowsAdjacent(stocks, i)
           /\ FollowsAdjacent(stocks, i) => stocks[i].lme = stocks[i - 1].me
           /\ (i = 1 \/ stocks[i - 1].permno # stocks[i].permno)
                => IsNaN(stocks[i].lme)

\* a lag taken across the year end, a row after a gap in its own security,
\* and a second security starting right after the first
C1_Witness ==
    /\ pc = "filter"
    /\ \E i \in 1..Len(stocks) :
         ~IsNaN(stocks[i].lme) /\ stocks[i].date.month = 1 /\ stocks[i].lme # R(0)
    /\ \E i \in 2..Len(stocks) :
         /\ stocks[i - 1].permno = stocks[i].permno
         /\ IsNaN(stocks[i].lme)
    /\ \E i \in 2..Len(stocks) : stocks[i - 1].permno # stocks[i].permno

\* C2: every month the aggregator retains has a strictly positive total
\* lagged market value.
C2_TotalLagPositive ==
    \A i \in 1..Len(monthly_returns) :
        /\ IsFinite(monthly_returns[i].Lagged_Mkt_Value)
        /\ monthly_returns[i].Lagged_Mkt_Value[1] > 0

\* the code the claim gives row i of the merged table for the column col:
\* the row's own, or else the last one seen in an earlier row of its permno
OwnCode(raw, t, i, col) ==
    LET own == WithKey(raw, <<t[i].permno, t[i].date>>)
    IN  IF own = <<>> THEN NaN ELSE own[1][col]

SameSecurityCode(raw, t, i, col) ==
    LET seen == {j \in 1..i : /\ t[j].permno = t[i].permno
                              /\ ~IsNaN(OwnCode(raw, t, j, col))}
    IN  IF seen = {} THEN NaN ELSE OwnCode(raw, t, Last(seen), col)

\* C3: after the merge, a missing shrcd or exchcd is filled from the most
\* recent earlier row of the same permno and stays missing when there is
\* none; a code never comes from another permno.
C3_FillWithinSecurity ==
    pc = "lag" =>
      \A i \in 1..Len(stocks) :
        /\ stocks[i].shrcd = SameSecurityCode(crsp_raw, stocks, i, "shrcd")
        /\ stocks[i].exchcd = SameSecurityCode(crsp_raw, stocks, i, "exchcd")

\* C4: the year-months of the aggregated output are exactly those present
\* in both the analysis panel and the Fama-French frame, one row each, and
\* the aligned frame has the same year-months.
C4_OutputMonthsAreIntersection ==
    pc = "done" =>
      LET common == {YM(r) : r \in Range(stocks)} \cap {YM(r) : r \in Range(french)}
      IN  /\ {YM(r) : r \in Range(monthly_returns)} = common
          /\ Len(monthly_returns) = Cardinality(common)
          /\ {YM(r) : r \in Range(both)} = common
          /\ Len(both) = Cardinality(common)

\* a month only in the panel, a month only in the Fama-French frame, and a
\* month in both
C4_Witness ==
    /\ pc = "done"
    /\ {YM(r) : r \in Range(stocks)} \ {YM(r) : r \in Range(french)} # {}
    /\ {YM(r) : r \in Range(french)} \ {YM(r) : r \in Range(stocks)} # {}
    /\ monthly_returns # <<>>

RowsOfMonth(t, r) == {j \in 1..Len(t) : YM(t[j]) = YM(r)}

\* C5: for every retained month the value-weighted excess return is
\* (sum lme*(1+ret) - sum lme) / sum lme - rf over the panel rows of that
\* month alone, which is the lme-weighted average of ret minus rf of that
\* month; when sum lme is 0 both quotients are 0/0, not a number.
C5_ValueWeighted ==
    \A i \in 1..Len(monthly_returns) :
      LET r == monthly_returns[i]
          rows == RowsOfMonth(stocks, r)
          S == SumSet(rows, [j \in rows |-> stocks[j].lme])
          E == SumSet(rows, [j \in rows |->
                               Mul(stocks[j].lme, Add(R(1), stocks[j].ret))])
          W == SumSet(rows, [j \in rows |-> Mul(stocks[j].lme, stocks[j].ret)])
      IN  /\ \E f \in Range(french) : YM(f) = YM(r)
          /\ \A f \in Range(french) :
               YM(f) = YM(r) =>
                 IF S = R(0) THEN IsNaN(r.MktRF_VW)
                 ELSE /\ r.MktRF_VW = Sub(Div(Sub(E, S), S), f.rf)
                      /\ r.MktRF_VW = Sub(Div(W, S), f.rf)

\* a month of two constituents with different weights and different returns
C5_Witness ==
    \E i \in 1..Len(monthly_returns) :
      \E j, k \in RowsOfMonth(stocks, monthly_returns[i]) :
        /\ stocks[j].lme # stocks[k].lme
        /\ stocks[j].ret # stocks[k].ret
        /\ stocks[j].lme # R(0) /\ stocks[k].lme # R(0)
        /\ stocks[j].ret # R(0) /\ stocks[k].ret # R(0)

\* the delisting return and the plain return the inputs give the key of
\* row i of the merged table (NaN when there is none)
DlretOfKey(t, i) ==
    LET dl == WithKey(dlret_raw, <<t[i].permno, t[i].date>>)
    IN  IF dl = <<>> THEN NaN ELSE dl[1].dlret

PlainOfKey(t, i) ==
    LET own == WithKey(crsp_raw, <<t[i].permno, t[i].date>>)
    IN  IF own = <<>> THEN NaN ELSE own[1].ret

Permuted(t, p) == [i \in 1..Len(t) |-> t[p[i]]]
Perms(n) == {p \in [1..n -> 1..n] : \A i, j \in 1..n : p[i] = p[j] => i = j}

\* C7: the value-weighted and equal-weighted returns of every retained
\* month are the same for every order of the panel's rows, and each depends
\* on nothing but the panel, the Fama-French frame and its own month.
C7_OrderIndependent ==
    \A i \in 1..Len(monthly_returns) :
      \A p \in Perms(Len(stocks)) :
        LET again == MonthRow(Permuted(stocks, p), french, monthly_returns[i])
        IN  /\ again.MktRF_VW = monthly_returns[i].MktRF_VW
            /\ again.MktRF_EW = monthly_returns[i].MktRF_EW

\* every month is aggregated, one of them from two constituents that differ
\* in weight and in return
C7_Witness ==
    /\ pc = "done"
    /\ \E i \in 1..Len(monthly_returns) :
         \E j, k \in RowsOfMonth(stocks, monthly_returns[i]) :
           /\ j < k
           /\ stocks[j].lme # stocks[k].lme
           /\ stocks[j].ret # stocks[k].ret
           /\ IsFinite(monthly_returns[i].MktRF_VW)

\* C8: a key found only in the delisting table becomes one merged row with
\* price 0, market value 0 and a total return equal to the delisting return
\* (so its plain return is 0); a key found only in the CRSP table becomes
\* one merged row too.
C8_OuterMergeKeepsBoth ==
    pc = "lag" =>
      /\ \A k \in KeysOf(dlret_raw) \ KeysOf(crsp_raw) :
           LET rows == WithKey(stocks, k)
           IN  /\ Len(rows) = 1
               /\ rows[1].prc = R(0)
               /\ rows[1].me = R(0)
               /\ rows[1].ret = FillNa(WithKey(dlret_raw, k)[1].dlret, R(0))
      /\ \A k \in KeysOf(crsp_raw) \ KeysOf(dlret_raw) : Len(WithKey(stocks, k)) = 1

\* a delisting-only key with delisting return -0.5 next to a CRSP-only key
C8_Witness ==
    /\ pc = "lag"
    /\ \E k \in KeysOf(dlret_raw) \ KeysOf(crsp_raw) :
         WithKey(stocks, k)[1].ret = Norm(-1, 2)
    /\ KeysOf(crsp_raw) \ KeysOf(dlret_raw) # {}

InPanel(panel, r) ==
    \E q \in Range(panel) : q.permno = r.permno /\ YM(q) = DateYM(r.date)

FirstEligible(t, p) ==
    First({i \in 1..Len(t) : t[i].permno = p /\ PassesFilter(t[i])})

HasEligible(t, p) == \E i \in 1..Len(t) : t[i].permno = p /\ PassesFilter(t[i])

\* C9: for every security, the first of its rows that passes the filter is
\* absent from the analysis panel.
C9_FirstEligibleRowDropped ==
    [][(pc = "filter" /\ pc' = "dates") =>
         \A p \in Permnos :
           HasEligible(stocks, p) =>
             ~InPanel(stocks', stocks[FirstEligible(stocks, p)])]_vars

\* C9, amended: the first row of a security that passes the filter is absent
\* from the analysis panel if and only if it does not directly follow a row
\* of the same security dated one month earlier; the security's first row
\* of all is always absent.
C9_FirstEligibleRowDroppedIffNoLag ==
    [][(pc = "filter" /\ pc' = "dates") =>
         \A p \in Permnos :
           /\ HasEligible(stocks, p) =>
                LET f == FirstEligible(stocks, p)
                IN  ~InPanel(stocks', stocks[f]) <=> ~FollowsAdjacent(stocks, f)
           /\ \A i \in 1..Len(stocks) :
                (stocks[i].permno = p /\ (i = 1 \/ stocks[i - 1].permno # p))
                  => ~InPanel(stocks', stocks[i])]_vars

\* the panel holds a row of a security whose CRSP row of the month before
\* does not pass the filter, and lacks the first row of another security
\* although that row passes the filter
C9_Witness ==
    /\ pc = "dates"
    /\ \E q \in Range(stocks) : \E r \in Range(crsp_raw) :
         /\ r.permno = q.permno
         /\ MonthAfter(r.date) = YM(q)
         /\ r.shrcd = R(12)
         /\ \A e \in Range(crsp_raw) \cup Range(dlret_raw) :
              e.permno = q.permno => ~DateLess(e.date, r.date)
    /\ \E r \in Range(crsp_raw) :
         /\ PassesFilter(r)
         /\ \A e \in Range(crsp_raw) \cup Range(dlret_raw) :
              e.permno = r.permno => ~DateLess(e.date, r.date)
         /\ ~InPanel(stocks, r)

\* C10: once the fetch phase has ended, by conn.close() or by a failed
\* fetch, the connection is no longer open; and no transform step runs
\* while it is open.
C10_ConnectionReleased ==
    /\ pc = "aborted" => conn # "open"
    /\ pc \in {"copy", "french", "clean", "merge", "lag", "filter", "dates",
               "loop", "done"} => conn = "closed"

=============================================================================
